---- MODULE Spec2Model ----
(***************************************************************************)
(* Trend prediction and hotspot detection of the microplastics platform    *)
(* (models/predictor.py), as a state machine over an input table.          *)
(*                                                                         *)
(* Units.  Floats are modelled exactly, as integers or as fractions:       *)
(*   concentration of a row          thousandths (120000 is 120.0)         *)
(*   latitude, longitude of a row    hundredths of a degree                *)
(*   a value rounded to 2 decimals   hundredths (12900 is 129.0)           *)
(*   a value rounded to 1 decimal    tenths (50 is 5.0)                    *)
(* A fraction is a record [num, den] with den > 0, kept in lowest terms.   *)
(* round(x, k) of a float returns a nearest k-decimal value; when x lies   *)
(* exactly half way in decimal, the binary error of the float decides the  *)
(* side, so both neighbours are outcomes (NearestInts).                    *)
(***************************************************************************)
EXTENDS Integers, Sequences, FiniteSets, TLC

VARIABLES gdf,      \* the rows of the DataFrame handed to the engine
          columns,  \* the column names that DataFrame has
          pc,       \* "idle" before the call, "returned" after it
          args,     \* the arguments of the call that returned
          result,   \* what the call returned
          clock,    \* wall clock, read for the timestamps
          file,     \* the file at file_path that the loader reads or writes
          trained,  \* the estimator the last prediction call fitted
          alert_manager, \* the fields of the AlertManager instance
          sent      \* what the alert channels have delivered and logged

vars == <<gdf, columns, pc, args, result, clock, file, trained, alert_manager, sent>>

(***************************** bounds **************************************)
MaxRows == 6        \* rows of a prediction input table
MaxHorizon == 2     \* largest years_ahead requested
MissingColRows == 1 \* rows of the tables that lack a column
NumCells == 12      \* grid cells of a hotspot input table
MaxFileRows == 3    \* rows of a file the loader reads
MaxCalls == 2       \* calls of validate_prediction on one record
MaxRecipients == 3  \* entries of the list of alert recipients
MaxChemicals == 2   \* rows of data/chemical_library.csv
MaxRequests == 2    \* requests the API serves in one behaviour

(************************** arithmetic *************************************)
Abs(x) == IF x < 0 THEN -x ELSE x

Min(a, b) == IF a <= b THEN a ELSE b

RECURSIVE Gcd(_, _)
Gcd(a, b) == IF b = 0 THEN Abs(a) ELSE Gcd(Abs(b), Abs(a) % Abs(b))

\* the fraction n/d (d # 0) in lowest terms, with a positive denominator
Frac(n, d) ==
    LET g == Gcd(n, d)
        sign == IF d < 0 THEN -1 ELSE 1
    IN  [num |-> (sign * n) \div g, den |-> (sign * d) \div g]

FracMul(x, y) ==
    LET g1 == Gcd(x.num, y.den)
        g2 == Gcd(y.num, x.den)
    IN  Frac((x.num \div g1) * (y.num \div g2), (x.den \div g2) * (y.den \div g1))

\* x / y for y # 0
FracDiv(x, y) == FracMul(x, [num |-> y.den, den |-> y.num])

\* the integers nearest to n/d: one, or both neighbours of an exact half
NearestInts(n, d) ==
    LET f == n \div d
    IN  {k \in {f, f + 1} : 2 * Abs(n - k * d) <= d}

\* numpy rint of n/d: the nearest integer, an exact half to the even side
RoundHalfEven(n, d) ==
    LET f == n \div d
        r == n - f * d
    IN  IF 2 * r < d THEN f
        ELSE IF 2 * r > d THEN f + 1
        ELSE IF f % 2 = 0 THEN f ELSE f + 1

\* a float result: a number, or NaN
Num(v) == [nan |-> FALSE, v |-> v]
NaN == [nan |-> TRUE, v |-> 0]
\* x > k as floats compare: every comparison with NaN is false
Gt(x, k) == ~x.nan /\ x.v > k

RECURSIVE SumConc(_)
SumConc(t) == IF t = <<>> THEN 0 ELSE Head(t).concentration + SumConc(Tail(t))

RECURSIVE MaxYear(_)
MaxYear(t) ==
    IF Len(t) = 1 THEN t[1].year
    ELSE LET m == MaxYear(Tail(t)) IN IF t[1].year > m THEN t[1].year ELSE m

(************************ prepare_training_data ****************************)
MinRegionRows == 5

\* mutant: the date column is not looked up
TrainingColumnsNoDate ==
    {"region", "year", "latitude", "longitude", "concentration"}

TrainingColumns ==
    {"region", "year", "sample_date", "latitude", "longitude", "concentration"}

\* month % 12 // 3 + 1
Season(month) == (month % 12) \div 3 + 1

\* regional_data: the region's rows, or every row relabelled when too few
RegionalData(t, region) ==
    LET sel == SelectSeq(t, LAMBDA r : r.region = region)
    IN  IF Len(sel) < MinRegionRows
        THEN [i \in 1..Len(t) |-> [t[i] EXCEPT !.region = "Global"]]
        ELSE sel

\* a column lookup raises KeyError; pd.cut raises ValueError on no rows
PrepareRaises(t, cols, region) ==
    \/ ~(TrainingColumns \subseteq cols)
    \/ Len(RegionalData(t, region)) = 0

(************************** get_recommendations ****************************)
RecImmediate ==
    << "IMMEDIATE ACTION REQUIRED", "Schedule emergency cleanup operations",
       "Implement fishing restrictions in affected areas",
       "Notify international environmental agencies",
       "Conduct emergency impact assessments" >>

RecHigh ==
    << "HIGH PRIORITY", "Plan comprehensive cleanup campaigns",
       "Increase monitoring frequency to monthly",
       "Engage local communities in awareness programs",
       "Apply for emergency funding" >>

RecModerate ==
    << "CONCERN LEVEL: MODERATE", "Maintain current monitoring schedule",
       "Consider seasonal cleanup operations",
       "Enhance community reporting programs",
       "Evaluate long-term mitigation strategies" >>

RecStable ==
    << "CURRENT TREND: STABLE", "Continue regular monitoring",
       "Maintain community engagement", "Support ongoing research initiatives",
       "Share success stories to maintain awareness" >>

get_recommendations_inclusive(pct) ==
    IF ~pct.nan /\ pct.v >= 200 THEN RecImmediate
    ELSE IF ~pct.nan /\ pct.v >= 100 THEN RecHigh
    ELSE IF ~pct.nan /\ pct.v >= 50 THEN RecModerate
    ELSE RecStable

\* increase_percentage in tenths, or NaN
get_recommendations(pct) ==
    IF Gt(pct, 200) THEN RecImmediate
    ELSE IF Gt(pct, 100) THEN RecHigh
    ELSE IF Gt(pct, 50) THEN RecModerate
    ELSE RecStable

(************************** predict_future_trend ***************************)
AdvancedMinRows == 20

\* growth_factor = 1.05
GrowthFactor == [num |-> 21, den |-> 20]

\* the estimator the call fits: train_advanced_model or train_simple_model
TrainedModel(model_type, n) ==
    IF model_type = "advanced" /\ n > AdvancedMinRows THEN "advanced" ELSE "simple"

\* mutant: the growth is applied to the current value, not compounded
NextPredNotCompounded(last_pred, current_concentration) ==
    FracMul(current_concentration, [num |-> 21, den |-> 20])

\* One pass of the loop body.  The estimator's own prediction is assigned to
\* pred and overwritten on the next statement, so it reaches no result.
NextPred(last_pred, current_concentration) == FracMul(last_pred, GrowthFactor)

\* future_predictions, with pred kept exact: the entries i..years_ahead
RECURSIVE FuturePredictions(_, _, _, _, _)
FuturePredictions(i, years_ahead, current_year, last_pred, current_concentration) ==
    IF i > years_ahead THEN <<>>
    ELSE LET pred == NextPred(last_pred, current_concentration)
         IN  << [year |-> current_year + i, pred |-> pred] >>
             \o FuturePredictions(i + 1, years_ahead, current_year, pred,
                                  current_concentration)

\* mutant: the change is taken relative to the predicted value
ChangeFromPredicted(pred, current_concentration) ==
    IF pred.num = 0 THEN {NaN}
    ELSE LET ratio == FracDiv(current_concentration, pred)
         IN  {Num(k) : k \in NearestInts((ratio.den - ratio.num) * 1000, ratio.den)}

\* round(((pred - current) / current) * 100, 1), in tenths; 0.0 / 0.0 of
\* numpy floats is NaN, not an exception
ChangeFromCurrent(pred, current_concentration) ==
    IF current_concentration.num = 0 THEN {NaN}
    ELSE LET ratio == FracDiv(pred, current_concentration)
         IN  {Num(k) : k \in NearestInts((ratio.num - ratio.den) * 1000, ratio.den)}

\* mutant: the thresholds are inclusive
RiskLevelInclusive(percentage_increase) ==
    IF ~percentage_increase.nan /\ percentage_increase.v >= 100 THEN "High"
    ELSE IF ~percentage_increase.nan /\ percentage_increase.v >= 50 THEN "Moderate"
    ELSE "Low"

RiskLevel(percentage_increase) ==
    IF Gt(percentage_increase, 100) THEN "High"
    ELSE IF Gt(percentage_increase, 50) THEN "Moderate"
    ELSE "Low"

Confidence(model_type) == IF model_type = "simple" THEN 75 ELSE 85

\* the region key of the returned record
ResultRegion(region, regional_data) == region

\* the except branch
FallbackPrediction(region, now) ==
    [ region |-> region,
      current_concentration |-> 5000,
      current_year |-> 2024,
      prediction_year |-> 2026,
      predicted_concentration |-> 5850,
      percentage_increase |-> Num(170),
      absolute_increase |-> 850,
      confidence |-> 60,
      risk_level |-> "Moderate",
      recommendations |-> << "Monitor closely", "Consider preventive measures" >>,
      model_used |-> "fallback",
      data_points_used |-> 0,
      last_calculated |-> now ]

\* what the try block raises on
PredictRaises(t, cols, region, years_ahead) ==
    \/ PrepareRaises(t, cols, region)
    \/ years_ahead < 1       \* future_predictions[-1] of an empty list

\* the records the try block can return (one per outcome of the roundings)
ComputedPredictions(t, region, years_ahead, model_type, now) ==
    LET regional_data == RegionalData(t, region)
        n == Len(regional_data)
        current_year == MaxYear(regional_data)
        current == Frac(SumConc(regional_data), n * 10)
        future == FuturePredictions(1, years_ahead, current_year, current, current)
        final == future[Len(future)]
    IN  UNION { { [ region |-> ResultRegion(region, regional_data),
                    current_concentration |-> c,
                    current_year |-> current_year,
                    prediction_year |-> final.year,
                    predicted_concentration |-> p,
                    percentage_increase |-> q,
                    absolute_increase |-> a,
                    confidence |-> Confidence(model_type),
                    risk_level |-> RiskLevel(q),
                    recommendations |-> get_recommendations(q),
                    model_used |-> model_type,
                    data_points_used |-> n,
                    last_calculated |-> now ] :
                  c \in NearestInts(current.num, current.den),
                  q \in ChangeFromCurrent(final.pred, current),
                  a \in NearestInts(p * current.den - current.num, current.den) } :
                p \in NearestInts(final.pred.num, final.pred.den) }

predict_future_trend(t, cols, region, years_ahead, model_type, now) ==
    IF PredictRaises(t, cols, region, years_ahead)
    THEN {FallbackPrediction(region, now)}
    ELSE ComputedPredictions(t, region, years_ahead, model_type, now)

(*************************** validate_prediction ***************************)
validate_prediction_assign(prediction) ==
    IF ~prediction.percentage_increase.nan /\ prediction.percentage_increase.v < 0
    THEN [prediction EXCEPT !.risk_level = "Low", !.confidence = 70]
    ELSE IF Gt(prediction.percentage_increase, 500)
    THEN [prediction EXCEPT !.confidence = 60]
    ELSE prediction

\* the dict after the call, which changes it in place and returns it
validate_prediction(prediction) ==
    IF ~prediction.percentage_increase.nan /\ prediction.percentage_increase.v < 0
    THEN [prediction EXCEPT !.risk_level = "Low", !.confidence = Min(@, 70)]
    ELSE IF Gt(prediction.percentage_increase, 500)
    THEN [prediction EXCEPT !.confidence = Min(@, 60)]
    ELSE prediction

(*************************** get_hotspot_alerts ****************************)
TopAlerts == 10
MinSamples == 2

\* A rounded coordinate, in tenths, as a float holds it: sign and magnitude
\* (round(-0.02, 1) is -0.0, which prints as "-0.0").  Series.round(1) is
\* numpy's: times ten, to the nearest integer, an exact half to even.
RoundCoord(hundredths) ==
    [neg |-> hundredths < 0, mag |-> RoundHalfEven(Abs(hundredths), 10)]

\* Strings are sequences of character codes: "-" 45, "." 46, "0" 48, "_" 95,
\* "," 44, " " 32.
RECURSIVE Digits(_)
Digits(n) == IF n < 10 THEN <<48 + n>> ELSE Append(Digits(n \div 10), 48 + (n % 10))

\* str of a float with one decimal: "12.4", "-0.0"
FormatCoord(x) ==
    (IF x.neg THEN <<45>> ELSE <<>>) \o Digits(x.mag \div 10) \o <<46, 48 + (x.mag % 10)>>

RECURSIVE ParseDigits(_)
ParseDigits(codes) ==
    IF codes = <<>> THEN 0
    ELSE 10 * ParseDigits(SubSeq(codes, 1, Len(codes) - 1)) + (codes[Len(codes)] - 48)

\* float(text) of such a string
ParseCoord(codes) ==
    LET neg == codes[1] = 45
        body == IF neg THEN Tail(codes) ELSE codes
        dot == CHOOSE i \in 1..Len(body) : body[i] = 46
    IN  [neg |-> neg,
         mag |-> 10 * ParseDigits(SubSeq(body, 1, dot - 1))
                 + ParseDigits(SubSeq(body, dot + 1, Len(body)))]

\* lat_round.astype(str) + '_' + lon_round.astype(str)
LocationId(row) ==
    FormatCoord(RoundCoord(row.latitude)) \o <<95>> \o FormatCoord(RoundCoord(row.longitude))

\* idx.split('_')
SplitId(idx) ==
    LET us == CHOOSE i \in 1..Len(idx) : idx[i] = 95
    IN  <<SubSeq(idx, 1, us - 1), SubSeq(idx, us + 1, Len(idx))>>

\* a < b as strings compare
RECURSIVE StrLess(_, _)
StrLess(a, b) ==
    IF b = <<>> THEN FALSE
    ELSE IF a = <<>> THEN TRUE
    ELSE IF Head(a) # Head(b) THEN Head(a) < Head(b)
    ELSE StrLess(Tail(a), Tail(b))

\* groupby sorts the group keys
RECURSIVE SortedKeys(_)
SortedKeys(S) ==
    IF S = {} THEN <<>>
    ELSE LET m == CHOOSE x \in S : \A y \in S \ {x} : StrLess(x, y)
         IN  <<m>> \o SortedKeys(S \ {m})

RECURSIVE MaxConc(_)
MaxConc(t) ==
    IF Len(t) = 1 THEN t[1].concentration
    ELSE LET m == MaxConc(Tail(t))
         IN  IF t[1].concentration > m THEN t[1].concentration ELSE m

\* the polymer names, in string order
PolymerOrder == << "PE", "PP" >>

\* x.mode().iloc[0]: the most frequent value, the least of them on a tie
DominantPolymer(t) ==
    LET count(p) == Len(SelectSeq(t, LAMBDA r : r.polymer_type = p))
        best == CHOOSE i \in 1..Len(PolymerOrder) :
                    /\ \A j \in 1..Len(PolymerOrder) :
                          count(PolymerOrder[j]) <= count(PolymerOrder[i])
                    /\ \A j \in 1..(i - 1) :
                          count(PolymerOrder[j]) < count(PolymerOrder[i])
    IN  PolymerOrder[best]

\* The rows of location_stats after .round(2), in key order: one sequence per
\* outcome of the roundings of the means and maxima.
RECURSIVE LocationStats(_, _)
LocationStats(keys, hotspots) ==
    IF keys = <<>> THEN {<<>>}
    ELSE LET rows == SelectSeq(hotspots, LAMBDA r : LocationId(r) = Head(keys))
         IN  { << [ location_id |-> Head(keys),
                    avg_concentration |-> avg,
                    max_concentration |-> mx,
                    sample_count |-> Len(rows),
                    latitude |-> rows[1].latitude,
                    longitude |-> rows[1].longitude,
                    dominant_polymer |-> DominantPolymer(rows) ] >> \o rest :
               avg \in NearestInts(SumConc(rows), 10 * Len(rows)),
               mx \in NearestInts(MaxConc(rows), 10),
               rest \in LocationStats(Tail(keys), hotspots) }

\* mutant: the score is not capped
RiskScoreUncapped(avg_concentration, threshold) ==
    IF threshold = 0 THEN [num |-> 10, den |-> 1]
    ELSE IF threshold > 0 THEN Frac(50 * avg_concentration, threshold)
    ELSE Frac(-50 * avg_concentration, -threshold)

\* min(10, (avg_concentration / threshold) * 5) as a fraction; avg in
\* hundredths, threshold in thousandths; a float divided by 0.0 is inf
RiskScore(avg_concentration, threshold) ==
    IF threshold = 0 THEN [num |-> 10, den |-> 1]
    ELSE LET x == IF threshold > 0
                  THEN Frac(50 * avg_concentration, threshold)
                  ELSE Frac(-50 * avg_concentration, -threshold)
         IN  IF 10 * x.den <= x.num THEN [num |-> 10, den |-> 1] ELSE x

FracLess(x, y) == x.num * y.den < y.num * x.den

Urgency(avg_concentration, threshold) ==
    IF 10 * avg_concentration > threshold * 2 THEN "Immediate" ELSE "High"

\* mutant: a single sample is enough
QualifiesAnyCount(row, threshold) == 10 * row.avg_concentration > threshold

\* the test a row of location_stats passes to become an alert
Qualifies(row, threshold) ==
    10 * row.avg_concentration > threshold /\ row.sample_count >= MinSamples

AlertOf(row, threshold, now) ==
    LET parts == SplitId(row.location_id)
        lat == ParseCoord(parts[1])
        lon == ParseCoord(parts[2])
    IN  [ location |-> FormatCoord(lat) \o <<44, 32>> \o FormatCoord(lon),
          lat |-> lat,
          lon |-> lon,
          avg_concentration |-> row.avg_concentration,
          max_concentration |-> row.max_concentration,
          sample_count |-> row.sample_count,
          dominant_polymer |-> row.dominant_polymer,
          risk_score |-> RiskScore(row.avg_concentration, threshold),
          urgency |-> Urgency(row.avg_concentration, threshold),
          last_detected |-> now ]

\* the loop over location_stats.iterrows()
RECURSIVE AlertRecords(_, _, _)
AlertRecords(stats, threshold, now) ==
    IF stats = <<>> THEN <<>>
    ELSE (IF Qualifies(Head(stats), threshold)
          THEN <<AlertOf(Head(stats), threshold, now)>> ELSE <<>>)
         \o AlertRecords(Tail(stats), threshold, now)

\* alerts.sort(key = risk_score, reverse = True): stable, so an alert goes
\* behind every alert whose score is not below its own
InsertAlert(sorted, a) ==
    LET ahead == {i \in 1..Len(sorted) : ~FracLess(sorted[i].risk_score, a.risk_score)}
        k == IF ahead = {} THEN 0 ELSE CHOOSE i \in ahead : \A j \in ahead : j <= i
    IN  SubSeq(sorted, 1, k) \o <<a>> \o SubSeq(sorted, k + 1, Len(sorted))

\* mutant: the alerts stay in key order
SortByRiskNone(alerts) == alerts

RECURSIVE SortByRisk(_)
SortByRisk(alerts) ==
    IF alerts = <<>> THEN <<>>
    ELSE InsertAlert(SortByRisk(SubSeq(alerts, 1, Len(alerts) - 1)), alerts[Len(alerts)])

\* mutant: the list is not cut
TopOfAll(alerts) == alerts

\* alerts[:10]
TopOf(alerts) == SubSeq(alerts, 1, Min(Len(alerts), TopAlerts))

\* gdf[gdf['concentration'] > threshold]
Hotspots(t, threshold) == SelectSeq(t, LAMBDA r : r.concentration > threshold)

HotspotColumns == {"latitude", "longitude", "polymer_type"}

AggregationNeverRaises(cols) == FALSE

\* rounding, grouping or aggregating a column the table lacks is a KeyError
AggregationRaises(cols) == ~(HotspotColumns \subseteq cols)

\* The lists the call can return.  A KeyError of a missing column is caught
\* and gives []; so does the division by a zero threshold when the row read
\* from iterrows holds a Python float, while a numpy float gives inf.
get_hotspot_alerts(t, cols, threshold, now) ==
    IF "concentration" \notin cols THEN {<<>>}
    ELSE IF Hotspots(t, threshold) = <<>> THEN {<<>>}
    ELSE IF AggregationRaises(cols) THEN {<<>>}
    ELSE LET hotspots == Hotspots(t, threshold)
             keys == SortedKeys({LocationId(hotspots[i]) : i \in 1..Len(hotspots)})
             lists == { TopOf(SortByRisk(AlertRecords(stats, threshold, now))) :
                        stats \in LocationStats(keys, hotspots) }
         IN  IF threshold = 0 /\ lists # {<<>>} THEN lists \cup {<<>>} ELSE lists

(*************************** assign_regions ********************************)
\* pd.isna of a float
IsNaNever(x) == FALSE

IsNa(x) == x.nan

\* lo <= x <= hi of a float that is not NaN, in hundredths of a degree
Within(x, lo, hi) == lo <= x.v /\ x.v <= hi

LatBandExclusive(lat) ==
    IF Within(lat, -999, 999) THEN "equatorial"
    ELSE IF 1000 < lat.v /\ lat.v <= 6000 THEN "north"
    ELSE IF -6000 <= lat.v /\ lat.v < -1000 THEN "south"
    ELSE "polar"

\* the branch of the if / elif chain on lat that a latitude takes
LatBand(lat) ==
    IF Within(lat, -1000, 1000) THEN "equatorial"
    ELSE IF 1000 < lat.v /\ lat.v <= 6000 THEN "north"
    ELSE IF -6000 <= lat.v /\ lat.v < -1000 THEN "south"
    ELSE "polar"

\* one turn of the loop over zip(latitude, longitude)
AssignRegion(lat, lon) ==
    IF IsNa(lat) \/ IsNa(lon) THEN "Unknown"
    ELSE CASE LatBand(lat) = "equatorial" ->
                  IF Within(lon, -18000, -3000) THEN "South America Pacific"
                  ELSE IF Within(lon, -3000, 6000) THEN "Atlantic"
                  ELSE "Indian Ocean"
           [] LatBand(lat) = "north" ->
                  IF Within(lon, -18000, 0) THEN "North America Pacific"
                  ELSE IF Within(lon, 0, 6000) THEN "Europe"
                  ELSE "Asia Pacific"
           [] LatBand(lat) = "south" ->
                  IF Within(lon, -18000, -11000) THEN "South Pacific"
                  ELSE IF Within(lon, -11000, 2000) THEN "South Atlantic"
                  ELSE "Indian Ocean"
           [] OTHER -> "Polar Regions"

\* the list of labels, one per pair that zip yields
assign_regions(latitude, longitude) ==
    [i \in 1..Min(Len(latitude), Len(longitude)) |->
        AssignRegion(latitude[i], longitude[i])]

(************************* load_microplastics_data *************************)
\* A cell of the frame read from the file: a number (or a text that
\* pd.to_numeric parses), a text it does not parse, or an empty cell, which
\* read_csv gives as NaN.  Concentrations are in thousandths; a sample_date
\* cell holds the month of its date.
NumCell(v) == [k |-> "num", v |-> v, s |-> ""]
StrCell(s) == [k |-> "str", v |-> 0, s |-> s]
NaCell == [k |-> "nan", v |-> 0, s |-> ""]
\* the field of a column the frame does not have; it is never read
NoCell == [k |-> "absent", v |-> 0, s |-> ""]

column_mapping ==
    [ lat |-> "latitude", lon |-> "longitude", conc |-> "concentration",
      sample_year |-> "year", poly_type |-> "polymer_type", source_type |-> "source" ]

\* df.rename(columns=column_mapping), on the column names
Rename(cols) ==
    {IF c \in DOMAIN column_mapping THEN column_mapping[c] ELSE c : c \in cols}

required_cols ==
    {"latitude", "longitude", "concentration", "year", "polymer_type", "source"}

NumericColumns == {"latitude", "longitude", "concentration", "year"}

\* Two columns of one name after the renaming: df[col] is then a frame, and
\* pd.to_numeric raises TypeError on it.
RenameCollides(cols) ==
    \E a \in DOMAIN column_mapping :
        a \in cols /\ column_mapping[a] \in cols /\ column_mapping[a] \in NumericColumns

\* values np.random.uniform(1, 200) can draw
UniformDraws == {1000, 199999}

\* The required columns the frame lacks are added: concentration with one
\* random draw per row, any other with the text 'Unknown'.
FillRow(r, cols) ==
    LET Text(col) == IF col \in cols THEN r[col] ELSE StrCell("Unknown")
    IN  { [ index |-> r.index,
            latitude |-> Text("latitude"),
            longitude |-> Text("longitude"),
            concentration |-> IF "concentration" \in cols THEN r.concentration
                              ELSE NumCell(u),
            year |-> Text("year"),
            polymer_type |-> Text("polymer_type"),
            source |-> Text("source"),
            sample_date |-> r.sample_date ] : u \in UniformDraws }

RECURSIVE FillRows(_, _)
FillRows(rows, cols) ==
    IF rows = <<>> THEN {<<>>}
    ELSE {<<h>> \o t : h \in FillRow(Head(rows), cols), t \in FillRows(Tail(rows), cols)}

\* pd.to_numeric(errors='coerce') of a cell
to_numeric(cell) == IF cell.k = "num" THEN Num(cell.v) ELSE NaN

fillna(x, v) == IF x.nan THEN Num(v) ELSE x

\* datetime.now().year
YearOf(now) == 2026 + now

\* the data cleaning of one row; the region is set afterwards
CleanRow(r, now) ==
    [ index |-> r.index,
      latitude |-> to_numeric(r.latitude),
      longitude |-> to_numeric(r.longitude),
      concentration |-> fillna(to_numeric(r.concentration), 0),
      year |-> fillna(to_numeric(r.year), YearOf(now)),
      polymer_type |-> r.polymer_type,
      source |-> r.source,
      sample_date |-> r.sample_date,
      region |-> "" ]

\* Series.between(lo, hi): false for NaN
Between(x, lo, hi) == ~x.nan /\ Within(x, lo, hi)

ValidCoordinates(r) ==
    Between(r.latitude, -9000, 9000) /\ Between(r.longitude, -18000, 18000)

\* lines 32 to 57: the tables the try block returns for a frame it has
Prepare(frame, now) ==
    LET cols == Rename(frame.columns)
        Cleaned(filled) == [i \in 1..Len(filled) |-> CleanRow(filled[i], now)]
        WithRegion(t) ==
            LET regions == assign_regions([i \in 1..Len(t) |-> t[i].latitude],
                                          [i \in 1..Len(t) |-> t[i].longitude])
            IN  [i \in 1..Len(t) |-> [t[i] EXCEPT !.region = regions[i]]]
    IN  { [ columns |-> cols \cup required_cols \cup {"region"},
            rows |-> SelectSeq(WithRegion(Cleaned(filled)), ValidCoordinates) ] :
          filled \in FillRows(frame.rows, cols) }

(*************************** generate_sample_data **************************)
\* np.linspace(0.05, 0.25, 15), in units of 1/700
YearWeights == [i \in 1..15 |-> 35 + 10 * (i - 1)]

RECURSIVE SumSeq(_)
SumSeq(q) == IF q = <<>> THEN 0 ELSE Head(q) + SumSeq(Tail(q))

\* np.random.choice(a, n, p) raises ValueError unless p sums to 1
ChoiceRaises(p) == SumSeq(p) # 700

SyntheticColumns ==
    { "sample_id", "latitude", "longitude", "concentration", "sample_date", "year",
      "polymer_type", "source", "method", "depth", "salinity", "temperature" }

\* A row of the frame: the latitude is clipped to [-90, 90], the longitude
\* is a normal draw that is not clipped, the concentration is clipped to
\* [0.1, 500].
SyntheticRow(i) ==
    [ index |-> i,
      latitude |-> NumCell(IF i % 2 = 0 THEN 9000 ELSE -2512),
      longitude |-> NumCell(IF i % 2 = 0 THEN 18950 ELSE 4730),
      concentration |-> NumCell(IF i % 2 = 0 THEN 500000 ELSE 100),
      year |-> NumCell(2010 + (i % 15)),
      polymer_type |-> StrCell("Polyethylene (PE)"),
      source |-> StrCell("Shipping"),
      sample_date |-> NumCell((i % 12) + 1) ]

\* The frames generate_sample_data can return: none, the weights of the year
\* draw summing to 2.25, so that the call raises ValueError on line 76.
generate_sample_data ==
    IF ChoiceRaises(YearWeights) THEN {}
    ELSE {[columns |-> SyntheticColumns, rows |-> <<SyntheticRow(1), SyntheticRow(2)>>]}

(********************* load_microplastics_data, the call *******************)
NoTable == [columns |-> {}, rows |-> <<>>]
Returns(t, f) == [raised |-> FALSE, table |-> t, file |-> f]
Raises(f) == [raised |-> TRUE, table |-> NoTable, file |-> f]

\* df.to_csv(file_path, index=False)
Saved(frame) ==
    [ exists |-> TRUE, content |-> "table", columns |-> frame.columns,
      rows |-> frame.rows, writable |-> TRUE ]

\* The outcomes of the call.  The try block reads the file when it exists
\* (pd.read_csv raises EmptyDataError on a file with no content and
\* ParserError on a malformed one) and else generates a frame and saves it
\* (to_csv raises OSError when the path cannot be written).  Whatever the
\* try block raises is caught, and the handler returns a generated frame as
\* it is, or lets the ValueError of the generator out.
load_microplastics_data(f, now) ==
    LET synthetic == generate_sample_data
        tried ==
            IF f.exists
            THEN IF f.content = "table" /\ ~RenameCollides(f.columns)
                 THEN {Returns(t, f) : t \in Prepare(f, now)}
                 ELSE {}
            ELSE IF f.writable
                 THEN UNION { {Returns(t, Saved(frame)) : t \in Prepare(frame, now)} :
                              frame \in synthetic }
                 ELSE {}
        handled ==
            IF synthetic = {} THEN {Raises(f)}
            ELSE {Returns(frame, f) : frame \in synthetic}
    IN  IF tried # {} THEN tried ELSE handled

(****************************** AlertManager *******************************)
\* self.thresholds['concentration'] = 100.0, in thousandths
ConcentrationThreshold == 100000

AlertTypes == {"hotspot", "threshold", "trend", "new_upload"}

\* _format_alert_message: the new_upload branch reads
\* alert_data['contribution_id'] (KeyError when the key is absent), and a
\* type with no branch leaves subject unbound (UnboundLocalError)
FormatRaises(alert_type, keys) ==
    \/ alert_type = "new_upload" /\ "contribution_id" \notin keys
    \/ alert_type \notin AlertTypes

\* _send_email_alert from recipient i on: the addresses mailed so far and
\* the value returned.  A recipient with no email is skipped; a failure of
\* the SMTP server is caught and gives False.
RECURSIVE EmailLoop(_, _, _, _)
EmailLoop(recipients, i, smtp_up, emails) ==
    IF i > Len(recipients) THEN [ok |-> TRUE, emails |-> emails]
    ELSE IF recipients[i].email = "" THEN EmailLoop(recipients, i + 1, smtp_up, emails)
    ELSE IF ~smtp_up THEN [ok |-> FALSE, emails |-> emails]
    ELSE EmailLoop(recipients, i + 1, smtp_up, Append(emails, recipients[i].email))

\* _send_sms_alert from recipient i on.  A recipient with no phone is
\* skipped.  The loop assigns the object that messages.create returns to
\* message, the parameter that holds the formatted dict: the next
\* message['summary'] is then a TypeError, which is caught and gives False.
RECURSIVE SmsLoop(_, _, _, _, _, _)
SmsLoop(recipients, i, twilio_configured, twilio_up, message_is_dict, sms) ==
    IF i > Len(recipients) THEN [ok |-> TRUE, sms |-> sms]
    ELSE IF recipients[i].phone = "" \/ ~twilio_configured
    THEN SmsLoop(recipients, i + 1, twilio_configured, twilio_up, message_is_dict, sms)
    ELSE IF ~message_is_dict THEN [ok |-> FALSE, sms |-> sms]
    ELSE IF ~twilio_up THEN [ok |-> FALSE, sms |-> sms]
    ELSE SmsLoop(recipients, i + 1, twilio_configured, twilio_up, FALSE,
                 Append(sms, recipients[i].phone))

_send_email_alert(mgr, smtp_up, emails) ==
    EmailLoop(mgr.alert_recipients, 1, smtp_up, emails)

_send_sms_alert(mgr, twilio_up, sms) ==
    SmsLoop(mgr.alert_recipients, 1, mgr.twilio_configured, twilio_up, TRUE, sms)

\* a Python bool or None as the caller sees it
Bool(b) == IF b THEN "True" ELSE "False"

\* send_alert: the value returned, or the exception of the formatting, and
\* what has been delivered and logged (_log_alert) after it
send_alert(mgr, alert_type, smtp_up, twilio_up, out, now) ==
    IF FormatRaises(alert_type, {"timestamp", "type", "location", "concentration", "region", "details"})
    THEN [raised |-> TRUE, value |-> "None", sent |-> out]
    ELSE LET email == IF mgr.email_configured
                      THEN _send_email_alert(mgr, smtp_up, out.emails)
                      ELSE [ok |-> FALSE, emails |-> out.emails]
             sms == IF mgr.twilio_configured
                    THEN _send_sms_alert(mgr, twilio_up, out.sms)
                    ELSE [ok |-> FALSE, sms |-> out.sms]
             success == email.ok \/ sms.ok
         IN  [ raised |-> FALSE,
               value |-> Bool(success),
               sent |-> [ emails |-> email.emails, sms |-> sms.sms,
                          log |-> Append(out.log,
                              [ type |-> alert_type, success |-> success, timestamp |-> now,
                                method |-> IF mgr.email_configured THEN "email"
                                           ELSE IF mgr.twilio_configured THEN "sms"
                                           ELSE "none" ]) ] ]

\* check_threshold_alert (check_data_thresholds): None for no rows, the
\* value of send_alert when the mean or, failing that, the maximum is over
\* its limit, and False otherwise
check_threshold_alert(mgr, data, smtp_up, twilio_up, out, now) ==
    IF Len(data) = 0 THEN [raised |-> FALSE, value |-> "None", sent |-> out]
    ELSE IF SumConc(data) > ConcentrationThreshold * Len(data)
    THEN send_alert(mgr, "threshold", smtp_up, twilio_up, out, now)
    ELSE IF MaxConc(data) > ConcentrationThreshold * 2
    THEN send_alert(mgr, "hotspot", smtp_up, twilio_up, out, now)
    ELSE [raised |-> FALSE, value |-> "False", sent |-> out]

(***************************** input tables ********************************)
AllColumns == TrainingColumns \cup {"polymer_type"}

\* A row of the table.  sample_date holds the month of the date, the one part
\* the engine reads.  A field of a column the table lacks is never read.
Row(region, concentration, i) ==
    [ region |-> region,
      year |-> 2020 + ((i * 2) % 5),
      sample_date |-> ((i * 5) % 12) + 1,
      latitude |-> ((i * 1733) % 9000) - 4000,
      longitude |-> ((i * 2917) % 17000) - 8000,
      concentration |-> concentration,
      polymer_type |-> IF i % 2 = 0 THEN "PE" ELSE "PP" ]

ScenarioConc == << 120000, 95000, 150000, 80000, 200000 >>

\* what row i of a prediction table can be
PredictRowChoices(i) ==
    { Row("Test", ScenarioConc[((i - 1) % 5) + 1], i),
      Row("Test", 0, i),
      Row("Other", 10010 * i, i) }

RECURSIVE TablesOfLen(_)
TablesOfLen(n) ==
    IF n = 0 THEN {<<>>}
    ELSE {Append(t, r) : t \in TablesOfLen(n - 1), r \in PredictRowChoices(n)}

PredictTables(maxLen) == UNION {TablesOfLen(n) : n \in 0..maxLen}

\* tables of one region with one row fewer than, as many as and one more
\* than the number of rows the choice of the estimator compares with
LongTables ==
    { [i \in 1..n |-> Row("Test", ScenarioConc[((i - 1) % 5) + 1], i)] :
      n \in (AdvancedMinRows - 1)..(AdvancedMinRows + 1) }

RegionArgs == {"Test", "Nowhere"}
ModelTypes == {"simple", "advanced", "ensemble"}

NoArgs == [fn |-> "none"]
NoResult == <<>>
\* no call of the loader: no file is looked at
NoFile == [exists |-> FALSE]
\* no alert manager is used, and nothing is delivered
NoManager == [email_configured |-> FALSE, twilio_configured |-> FALSE, alert_recipients |-> <<>>]
NoneSent == [emails |-> <<>>, sms |-> <<>>, log |-> <<>>]

(***************************** prediction call *****************************)
InitPredict ==
    /\ \/ columns = AllColumns /\ gdf \in PredictTables(MaxRows) \cup LongTables
       \/ /\ columns \in {AllColumns \ {c} : c \in TrainingColumns}
          /\ gdf \in PredictTables(MissingColRows)
    /\ pc = "idle"
    /\ args = NoArgs
    /\ result = NoResult
    /\ clock = 0
    /\ file = NoFile
    /\ trained = "none"
    /\ alert_manager = NoManager
    /\ sent = NoneSent

PredictFutureTrend(region, years_ahead, model_type) ==
    /\ pc = "idle"
    /\ result' \in predict_future_trend(gdf, columns, region, years_ahead,
                                        model_type, clock)
    /\ args' = [ fn |-> "predict_future_trend", region |-> region,
                 years_ahead |-> years_ahead, model_type |-> model_type ]
    /\ trained' = IF PrepareRaises(gdf, columns, region) THEN "none"
                  ELSE TrainedModel(model_type, Len(RegionalData(gdf, region)))
    /\ pc' = "returned"
    /\ clock' = clock + 1
    /\ UNCHANGED <<alert_manager, sent, gdf, columns, file>>

NextPredict ==
    \E region \in RegionArgs, years_ahead \in 0..MaxHorizon, model_type \in ModelTypes :
        PredictFutureTrend(region, years_ahead, model_type)

Spec == InitPredict /\ [][NextPredict]_vars

Predicted == pc = "returned" /\ args.fn = "predict_future_trend"
Computed == Predicted /\ result.model_used # "fallback"
RegionRows == SelectSeq(gdf, LAMBDA r : r.region = args.region)

(*************************** recommendation call ***************************)
\* percentages in tenths: at, below and above the three thresholds, and NaN
Percentages ==
    {Num(b + d) : b \in {50, 100, 200}, d \in {-1, 0, 1}}
        \cup {Num(-10), Num(0), Num(75), Num(150), Num(500), NaN}

\* tables of five rows, all columns present
InitRecommend ==
    /\ columns = AllColumns
    /\ gdf \in TablesOfLen(MinRegionRows)
    /\ pc = "idle"
    /\ args = NoArgs
    /\ result = NoResult
    /\ clock = 0
    /\ file = NoFile
    /\ trained = "none"
    /\ alert_manager = NoManager
    /\ sent = NoneSent

GetRecommendations(increase_percentage) ==
    /\ pc = "idle"
    /\ result' = get_recommendations(increase_percentage)
    /\ args' = [fn |-> "get_recommendations", increase_percentage |-> increase_percentage]
    /\ pc' = "returned"
    /\ UNCHANGED <<alert_manager, sent, gdf, columns, clock, file, trained>>

NextRecommend ==
    \/ NextPredict
    \/ \E increase_percentage \in Percentages : GetRecommendations(increase_percentage)

SpecRecommend == InitRecommend /\ [][NextRecommend]_vars

Recommended == pc = "returned" /\ args.fn = "get_recommendations"

(***************************** validation call *****************************)
\* prediction records a caller can hold: any percentage (in tenths, or NaN),
\* confidence and risk level, the other fields those of one record
PredictionRecords ==
    { [FallbackPrediction("Test", 0) EXCEPT !.percentage_increase = pct,
                                            !.confidence = confidence,
                                            !.risk_level = risk_level] :
      pct \in {Num(-10), Num(-1), Num(0), Num(170), Num(500), Num(501), Num(900), NaN},
      confidence \in {50, 60, 65, 70, 75, 85},
      risk_level \in {"Low", "Moderate", "High"} }

InitValidate ==
    /\ result \in PredictionRecords
    /\ gdf = <<>>
    /\ columns = {}
    /\ pc = "idle"
    /\ args = NoArgs
    /\ clock = 0
    /\ file = NoFile
    /\ trained = "none"
    /\ alert_manager = NoManager
    /\ sent = NoneSent

\* validate_prediction(prediction) on the record held, which it changes in
\* place; args keeps the record as it was before the first call
ValidatePrediction ==
    /\ IF args.fn = "validate_prediction" THEN args.calls < MaxCalls ELSE TRUE
    /\ result' = validate_prediction(result)
    /\ args' = IF args.fn = "validate_prediction"
               THEN [args EXCEPT !.calls = @ + 1]
               ELSE [fn |-> "validate_prediction", prediction |-> result, calls |-> 1]
    /\ pc' = "returned"
    /\ UNCHANGED <<alert_manager, sent, gdf, columns, clock, file, trained>>

NextValidate == ValidatePrediction

SpecValidate == InitValidate /\ [][NextValidate]_vars

Validated == pc = "returned" /\ args.fn = "validate_prediction"

(****************************** hotspot call *******************************)
\* The hotspot input tables are made of blocks, one per grid cell.  Cell i has
\* its centre at (CellLat(i), CellLon(i)); the samples of a block lie within
\* 0.02 degrees of the centre.
CellLat(i) == (i - 4) * 310 + 150
CellLon(i) == (i - 6) * 2510 + 1250
BaseConc(i) == 100000 + 15000 * i

Shapes ==
    {"none", "pair", "single", "triple", "mixed", "edge", "tie", "lifted", "straddle"}

\* the concentrations of the samples of a block
BlockConc(shape, i) ==
    CASE shape = "none" -> <<>>
      [] shape = "pair" -> << BaseConc(i) + 10, BaseConc(i) + 30 >>
      [] shape = "single" -> << 500000 >>
      [] shape = "triple" -> << 140000, 150000, 160000 >>
      [] shape = "mixed" -> << 50000, 50000, 350000 >>
      [] shape = "edge" -> << 100001, 100002 >>
      [] shape = "tie" -> << 120010, 120020 >>
      [] shape = "lifted" -> << 10000, 220000, 220000 >>
      [] shape = "straddle" -> << 140000, 150000, 160000 >>

\* the rows of a block; the "straddle" samples lie around latitude 0
Block(shape, i) ==
    LET conc == BlockConc(shape, i)
        lat0 == IF shape = "straddle" THEN 0 ELSE CellLat(i)
    IN  [ j \in 1..Len(conc) |->
            [ region |-> "Hot",
              year |-> 2024,
              sample_date |-> 6,
              latitude |-> lat0 + << -2, 2, 1 >>[j],
              longitude |-> CellLon(i) + << 1, -1, 2 >>[j],
              concentration |-> conc[j],
              polymer_type |-> << "PP", "PE", "PP" >>[j] ] ]

RECURSIVE Pairs(_, _)
Pairs(lo, hi) == IF lo > hi THEN <<>> ELSE Block("pair", lo) \o Pairs(lo + 1, hi)

\* cells 1 and 2 take any shape; of the others a run lo..hi holds a pair
FreeBlocks == {Block(s1, 1) \o Block(s2, 2) : s1 \in Shapes, s2 \in Shapes}

HotspotTables ==
    {free \o Pairs(lo, hi) : free \in FreeBlocks, lo \in 3..NumCells, hi \in 2..NumCells}

Thresholds == {100000, 150000, 0, -100000}

InitHotspot ==
    /\ \/ columns = AllColumns /\ gdf \in HotspotTables
       \/ /\ columns \in {AllColumns \ {c} : c \in HotspotColumns \cup {"concentration"}}
          /\ gdf \in FreeBlocks
    /\ pc = "idle"
    /\ args = NoArgs
    /\ result = NoResult
    /\ clock = 0
    /\ file = NoFile
    /\ trained = "none"
    /\ alert_manager = NoManager
    /\ sent = NoneSent

GetHotspotAlerts(threshold) ==
    /\ pc = "idle"
    /\ result' \in get_hotspot_alerts(gdf, columns, threshold, clock)
    /\ args' = [fn |-> "get_hotspot_alerts", threshold |-> threshold]
    /\ pc' = "returned"
    /\ clock' = clock + 1
    /\ UNCHANGED <<alert_manager, sent, gdf, columns, file, trained>>

NextHotspot == \E threshold \in Thresholds : GetHotspotAlerts(threshold)

SpecHotspot == InitHotspot /\ [][NextHotspot]_vars

Alerted == pc = "returned" /\ args.fn = "get_hotspot_alerts"

(*************************** assign_regions call ***************************)
\* latitudes and longitudes at, next to and between the band boundaries, in
\* hundredths of a degree, with values out of range and NaN
BandLats == {-9000, -6000, -1000, 0, 1000, 6000, 9000}
BandLons == {-18000, -11000, -3000, 0, 2000, 6000, 18000}
LatValues ==
    {Num(b + d) : b \in BandLats, d \in {-1, 0, 1}} \cup {Num(-3500), Num(3500), NaN}
LonValues ==
    {Num(b + d) : b \in BandLons, d \in {-1, 0, 1}} \cup {Num(-15000), Num(12000), NaN}

Coord(lat, lon) == [latitude |-> lat, longitude |-> lon]

\* a series of one pair, or of that pair and a second one
CoordTables ==
    LET first == {<<Coord(lat, lon)>> : lat \in LatValues, lon \in LonValues}
        second == { Coord(Num(7500), Num(0)), Coord(NaN, NaN), Coord(Num(0), NaN),
                    Coord(Num(-1000), Num(2001)) }
    IN  first \cup {Append(t, r) : t \in first, r \in second}

ColumnOf(t, col) == [i \in 1..Len(t) |-> t[i][col]]

InitRegions ==
    /\ gdf \in CoordTables
    /\ columns = {"latitude", "longitude"}
    /\ pc = "idle"
    /\ args = NoArgs
    /\ result = NoResult
    /\ clock = 0
    /\ file = NoFile
    /\ trained = "none"
    /\ alert_manager = NoManager
    /\ sent = NoneSent

AssignRegions ==
    /\ pc = "idle"
    /\ result' = assign_regions(ColumnOf(gdf, "latitude"), ColumnOf(gdf, "longitude"))
    /\ args' = [fn |-> "assign_regions"]
    /\ pc' = "returned"
    /\ UNCHANGED <<alert_manager, sent, gdf, columns, clock, file, trained>>

NextRegions == AssignRegions

SpecRegions == InitRegions /\ [][NextRegions]_vars

Assigned == pc = "returned" /\ args.fn = "assign_regions"

(******************************* loader call *******************************)
CanonicalNames == required_cols
AliasNames == DOMAIN column_mapping

\* the rows of the file: a sound row, or one with one cell that is empty,
\* not a number, negative or out of range
FileRowChoices(i) ==
    LET base == [ index |-> i,
                  latitude |-> NumCell(1250 * i),
                  longitude |-> NumCell(-4000 * i),
                  concentration |-> NumCell(40000 * i * i),
                  year |-> NumCell(2018 + i),
                  polymer_type |-> StrCell("PE"),
                  source |-> StrCell("Shipping"),
                  sample_date |-> NumCell(((i * 5) % 12) + 1) ]
    IN  { base,
          [base EXCEPT !.concentration = NaCell],
          [base EXCEPT !.concentration = StrCell("n/a")],
          [base EXCEPT !.concentration = NumCell(-5000)],
          [base EXCEPT !.polymer_type = NaCell],
          [base EXCEPT !.source = NaCell],
          [base EXCEPT !.latitude = NumCell(9100)],
          [base EXCEPT !.longitude = StrCell("east")],
          [base EXCEPT !.year = NaCell] }

RECURSIVE FileRowsOfLen(_)
FileRowsOfLen(n) ==
    IF n = 0 THEN {<<>>}
    ELSE {Append(t, r) : t \in FileRowsOfLen(n - 1), r \in FileRowChoices(n)}

FileRows(maxLen) == UNION {FileRowsOfLen(n) : n \in 0..maxLen}

\* the row as a file with the columns cols holds it
Strip(r, cols) ==
    LET Cell(col) == IF col \in Rename(cols) THEN r[col] ELSE NoCell
    IN  [ index |-> r.index, latitude |-> Cell("latitude"),
          longitude |-> Cell("longitude"), concentration |-> Cell("concentration"),
          year |-> Cell("year"), polymer_type |-> Cell("polymer_type"),
          source |-> Cell("source"), sample_date |-> Cell("sample_date") ]

TableFile(cols, rows) ==
    [ exists |-> TRUE, content |-> "table", columns |-> cols,
      rows |-> [i \in 1..Len(rows) |-> Strip(rows[i], cols)], writable |-> TRUE ]

\* a file that lacks one column, has a column twice, or has one more
PartialColumns ==
    {CanonicalNames \ {c} : c \in CanonicalNames}
        \cup {CanonicalNames \cup {"lat"}, CanonicalNames \cup {"sample_date"}}

Files ==
    {TableFile(cols, rows) : cols \in {CanonicalNames, AliasNames}, rows \in FileRows(MaxFileRows)}
        \cup {TableFile(cols, rows) : cols \in PartialColumns, rows \in FileRows(MissingColRows)}
        \cup { [ exists |-> TRUE, content |-> c, columns |-> {}, rows |-> <<>>,
                 writable |-> TRUE ] : c \in {"empty", "malformed"} }
        \cup { [ exists |-> FALSE, content |-> "none", columns |-> {}, rows |-> <<>>,
                 writable |-> w ] : w \in BOOLEAN }

InitLoad ==
    /\ file \in Files
    /\ gdf = <<>>
    /\ columns = {}
    /\ pc = "idle"
    /\ args = NoArgs
    /\ result = NoResult
    /\ clock = 0
    /\ trained = "none"
    /\ alert_manager = NoManager
    /\ sent = NoneSent

LoadMicroplasticsData ==
    /\ pc = "idle"
    /\ \E out \in load_microplastics_data(file, clock) :
          /\ result' = out.table
          /\ pc' = IF out.raised THEN "raised" ELSE "returned"
          /\ file' = out.file
    /\ args' = [fn |-> "load_microplastics_data"]
    /\ clock' = clock + 1
    /\ UNCHANGED <<alert_manager, sent, gdf, columns, trained>>

NextLoad == LoadMicroplasticsData

SpecLoad == InitLoad /\ [][NextLoad]_vars

Called == pc # "idle" /\ args.fn = "load_microplastics_data"
Loaded == pc = "returned" /\ args.fn = "load_microplastics_data"

(****************************** pipeline ***********************************)
\* the frame the loader returned, as the engine reads it
EngineRow(r) ==
    [ region |-> r.region,
      year |-> r.year.v,
      sample_date |-> r.sample_date.v,
      latitude |-> r.latitude.v,
      longitude |-> r.longitude.v,
      concentration |-> r.concentration.v,
      polymer_type |-> r.polymer_type.s ]

EngineFrame(t) == [i \in 1..Len(t.rows) |-> EngineRow(t.rows[i])]

PipelineRegions == {"North America Pacific", "Nowhere"}

\* predict_future_trend(load_microplastics_data(file_path), region, ...)
PredictLoaded(region, years_ahead, model_type) ==
    /\ Loaded
    /\ gdf' = EngineFrame(result)
    /\ columns' = result.columns
    /\ result' \in predict_future_trend(EngineFrame(result), result.columns, region,
                                        years_ahead, model_type, clock)
    /\ trained' = IF PrepareRaises(EngineFrame(result), result.columns, region)
                  THEN "none"
                  ELSE TrainedModel(model_type,
                                    Len(RegionalData(EngineFrame(result), region)))
    /\ args' = [ fn |-> "predict_future_trend", region |-> region,
                 years_ahead |-> years_ahead, model_type |-> model_type ]
    /\ pc' = "returned"
    /\ clock' = clock + 1
    /\ UNCHANGED <<alert_manager, sent, file>>

NextPipeline ==
    \/ LoadMicroplasticsData
    \/ \E region \in PipelineRegions, years_ahead \in 1..MaxHorizon, model_type \in ModelTypes :
          PredictLoaded(region, years_ahead, model_type)

SpecPipeline == InitLoad /\ [][NextPipeline]_vars

(******************************* alert calls *******************************)
\* what recipient i of the list can be: with or without email and phone
RecipientChoices(i) ==
    LET emails == <<"admin@microplastics.org", "ngo@ocean.org", "lab@ocean.org", "port@ocean.org">>
        phones == <<"+1234567890", "+1234567891", "+1234567892", "+1234567893">>
    IN  { [name |-> i, email |-> email, phone |-> phone] :
          email \in {"", emails[i]}, phone \in {"", phones[i]} }

RECURSIVE RecipientsOfLen(_)
RecipientsOfLen(n) ==
    IF n = 0 THEN {<<>>}
    ELSE {Append(t, r) : t \in RecipientsOfLen(n - 1), r \in RecipientChoices(n)}

AlertRow(concentration) == [concentration |-> concentration, region |-> "Test Region"]

\* the test data of the module, and tables at and around the two limits
AlertTables ==
    { <<>>,
      [i \in 1..5 |-> AlertRow(ScenarioConc[i])],
      <<AlertRow(100000)>>,
      <<AlertRow(100001)>>,
      <<AlertRow(0), AlertRow(0), AlertRow(250000)>>,
      <<AlertRow(0), AlertRow(200000)>>,
      <<AlertRow(50000), AlertRow(60000)>> }

InitAlerts ==
    /\ alert_manager \in
          { [ email_configured |-> e, twilio_configured |-> t, alert_recipients |-> recipients ] :
            e \in BOOLEAN, t \in BOOLEAN,
            recipients \in UNION {RecipientsOfLen(n) : n \in 0..MaxRecipients} }
    /\ gdf \in AlertTables
    /\ columns = {"concentration", "region"}
    /\ sent = NoneSent
    /\ pc = "idle"
    /\ args = NoArgs
    /\ result = NoResult
    /\ clock = 0
    /\ file = NoFile
    /\ trained = "none"

\* the end of a call with outcome out
Finish(out) ==
    /\ result' = out.value
    /\ sent' = out.sent
    /\ pc' = IF out.raised THEN "raised" ELSE "returned"
    /\ clock' = clock + 1
    /\ UNCHANGED <<gdf, columns, file, trained, alert_manager>>

SendAlert(alert_type, smtp_up, twilio_up) ==
    /\ pc = "idle"
    /\ Finish(send_alert(alert_manager, alert_type, smtp_up, twilio_up, sent, clock))
    /\ args' = [ fn |-> "send_alert", alert_type |-> alert_type,
                 smtp_up |-> smtp_up, twilio_up |-> twilio_up ]

CheckThresholdAlert(smtp_up, twilio_up) ==
    /\ pc = "idle"
    /\ Finish(check_threshold_alert(alert_manager, gdf, smtp_up, twilio_up, sent, clock))
    /\ args' = [ fn |-> "check_threshold_alert", alert_type |-> "",
                 smtp_up |-> smtp_up, twilio_up |-> twilio_up ]

SendSmsAlert(twilio_up) ==
    /\ pc = "idle"
    /\ LET sms == _send_sms_alert(alert_manager, twilio_up, sent.sms)
       IN  Finish([ raised |-> FALSE, value |-> Bool(sms.ok),
                    sent |-> [sent EXCEPT !.sms = sms.sms] ])
    /\ args' = [ fn |-> "_send_sms_alert", alert_type |-> "",
                 smtp_up |-> FALSE, twilio_up |-> twilio_up ]

NextAlerts ==
    \/ \E alert_type \in AlertTypes \cup {"other"}, smtp_up \in BOOLEAN, twilio_up \in BOOLEAN :
          SendAlert(alert_type, smtp_up, twilio_up)
    \/ \E smtp_up \in BOOLEAN, twilio_up \in BOOLEAN : CheckThresholdAlert(smtp_up, twilio_up)
    \/ \E twilio_up \in BOOLEAN : SendSmsAlert(twilio_up)

SpecAlerts == InitAlerts /\ [][NextAlerts]_vars

\* the rows the fit uses, by the rule of the specification
UsedRows == IF Len(RegionRows) < 5 THEN gdf ELSE RegionRows
ConcOf(t) == [i \in 1..Len(t) |-> t[i].concentration]

(***************************** C1 .. C6 ************************************)
\* C1: a prediction for a region with fewer than 5 rows uses the full table
\* and the returned record is labelled region = "Global".
C1_SparseRegionLabelledGlobal ==
    (Computed /\ Len(RegionRows) < 5 /\ SumConc(gdf) > 0)
        => /\ result.data_points_used = Len(gdf)
           /\ result.region = "Global"

\* C2, for a region of at least 5 rows with a positive mean, horizon 1 and the
\* simple model: current_concentration is the mean rounded to 2 decimals,
\* predicted_concentration the mean x 1.05 rounded to 2 decimals,
\* percentage_increase 5.0 and risk_level the given one; the rows
\* [120, 95, 150, 80, 200] give 129.0, 135.45, 5.0 and that risk level.
C2_Scenario(risk_level) ==
    ( /\ Computed
      /\ Len(RegionRows) >= 5
      /\ SumConc(RegionRows) > 0
      /\ args.years_ahead = 1
      /\ args.model_type = "simple" )
        => /\ result.current_concentration
                \in NearestInts(SumConc(RegionRows), 10 * Len(RegionRows))
           /\ result.predicted_concentration
                \in NearestInts(SumConc(RegionRows) * 105, 1000 * Len(RegionRows))
           /\ result.percentage_increase = Num(50)
           /\ result.risk_level = risk_level
           /\ ConcOf(RegionRows) = ScenarioConc
                => /\ result.current_concentration = 12900
                   /\ result.predicted_concentration = 13545

\* C2 as stated: the risk level of the scenario is "Moderate".
C2_RiskModerate == C2_Scenario("Moderate")

\* C2 as amended: percentage_increase 5.0 is not above 5, so risk_level is "Low".
C2_RiskLow == C2_Scenario("Low")

C2_Witness ==
    /\ Computed
    /\ ConcOf(RegionRows) = ScenarioConc
    /\ args.years_ahead = 1
    /\ args.model_type = "simple"
    /\ result.predicted_concentration = 13545
    /\ result.risk_level = "Low"

\* 21^h and 20^h: the growth of h years is (21/20)^h
RECURSIVE Pow(_, _)
Pow(b, h) == IF h = 0 THEN 1 ELSE b * Pow(b, h - 1)

\* C3: a computed record's predicted_concentration is the mean concentration
\* of the rows used times 1.05 per year of the horizon, rounded to 2 decimals,
\* whatever the model tier and the year, latitude, longitude and season values.
C3_CompoundedMean ==
    Computed
        => LET mean == Frac(SumConc(UsedRows), 10 * Len(UsedRows))
               grown == FracMul(mean, Frac(Pow(21, args.years_ahead),
                                           Pow(20, args.years_ahead)))
           IN  result.predicted_concentration \in NearestInts(grown.num, grown.den)

C3_Witness ==
    /\ Computed
    /\ ConcOf(UsedRows) = ScenarioConc
    /\ args.years_ahead = 2
    /\ args.model_type = "advanced"
    /\ result.predicted_concentration = 14222

\* C4: in a computed record risk_level is "High" exactly when
\* percentage_increase > 10, "Moderate" exactly when it is in (5, 10], and
\* "Low" otherwise.
C4_RiskFollowsPercentage ==
    Computed
        => LET pct == result.percentage_increase
               above10 == ~pct.nan /\ pct.v > 100
               above5 == ~pct.nan /\ pct.v > 50
           IN  /\ result.risk_level = "High" <=> above10
               /\ result.risk_level = "Moderate" <=> (above5 /\ ~above10)
               /\ result.risk_level = "Low" <=> ~above5

C4_Witness ==
    /\ Computed
    /\ result.percentage_increase \in {Num(102), Num(103)}
    /\ result.risk_level = "High"

\* C5: every call returns, and a call that fails (empty table, one of the six
\* columns missing, no forecast year) returns the fallback record:
\* model_used "fallback", confidence 60, data_points_used 0.
C5_FailureGivesFallback ==
    /\ pc = "idle"
         => \A region \in RegionArgs, years_ahead \in 0..MaxHorizon,
               model_type \in ModelTypes :
                 predict_future_trend(gdf, columns, region, years_ahead,
                                      model_type, clock) # {}
    /\ ( /\ Predicted
         /\ \/ Len(gdf) = 0
            \/ \E c \in {"region", "year", "sample_date", "latitude", "longitude",
                          "concentration"} : c \notin columns
            \/ args.years_ahead < 1 )
         => /\ result.model_used = "fallback"
            /\ result.confidence = 60
            /\ result.data_points_used = 0

C5_Witness ==
    /\ Predicted
    /\ "sample_date" \notin columns
    /\ Len(gdf) > 0
    /\ args.years_ahead >= 1
    /\ result.model_used = "fallback"

\* C6: when the mean concentration of the rows used is zero, the call returns
\* the fallback record.
C6_ZeroMeanGivesFallback ==
    ( /\ Predicted
      /\ columns = AllColumns
      /\ Len(gdf) > 0
      /\ args.years_ahead >= 1
      /\ SumConc(UsedRows) = 0 )
        => result.model_used = "fallback"

(***************************** C7 .. C10 ***********************************)
\* the grid cell of a row, the cells of the table, a cell's samples
CellOf(r) == <<RoundCoord(r.latitude), RoundCoord(r.longitude)>>
Cells == {CellOf(gdf[i]) : i \in 1..Len(gdf)}
RowsIn(cell) == SelectSeq(gdf, LAMBDA r : CellOf(r) = cell)
RowsAbove(cell) ==
    SelectSeq(gdf, LAMBDA r : CellOf(r) = cell /\ r.concentration > args.threshold)
AlertsFor(cell) == {i \in 1..Len(result) : <<result[i].lat, result[i].lon>> = cell}

Ten == [num |-> 10, den |-> 1]
Zero == [num |-> 0, den |-> 1]
\* min(10, (avg / threshold) x 5), the quotient by a zero threshold being inf
ScoreOf(avg, threshold) ==
    LET x == IF threshold > 0 THEN Frac(50 * avg, threshold)
             ELSE Frac(-50 * avg, -threshold)
    IN  IF threshold = 0 \/ ~FracLess(x, Ten) THEN Ten ELSE x

\* C7: at most 10 alerts are returned, and each has sample_count >= 2 and
\* avg_concentration > threshold.
C7_AtMostTenQualified ==
    Alerted
        => /\ Len(result) <= 10
           /\ \A i \in 1..Len(result) :
                 /\ result[i].sample_count >= 2
                 /\ 10 * result[i].avg_concentration > args.threshold

C7_Witness ==
    /\ Alerted
    /\ Len(result) = 10
    /\ Cardinality({c \in Cells : Len(RowsAbove(c)) >= 2}) > 10

\* C8, with threshold 100: a cell whose given samples are 3 and average 150 is
\* in the list with urgency "High", unless 10 other alerts that score at
\* least as much fill the list; a cell of 1 sample is never in the list.
C8_Scenario(Samples(_)) ==
    (Alerted /\ args.threshold = 100000 /\ columns = AllColumns)
        => \A c \in Cells :
             /\ (Len(Samples(c)) = 3 /\ SumConc(Samples(c)) = 450000)
                  => \/ \E i \in AlertsFor(c) : result[i].urgency = "High"
                     \/ /\ Len(result) = 10
                        /\ \A i \in 1..Len(result) :
                              ~FracLess(result[i].risk_score, ScoreOf(15000, 100000))
             /\ Len(RowsIn(c)) = 1 => AlertsFor(c) = {}

\* C8 as stated: the 3 samples are the samples the cell contains.
C8_ThreeSamplesInCell == C8_Scenario(RowsIn)

\* C8 as amended: the 3 samples are the cell's samples above the threshold.
C8_ThreeSamplesAboveThreshold == C8_Scenario(RowsAbove)

C8_Witness ==
    /\ Alerted
    /\ args.threshold = 100000
    /\ \E c \in Cells :
          /\ Len(RowsAbove(c)) = 3
          /\ SumConc(RowsAbove(c)) = 450000
          /\ \E i \in AlertsFor(c) :
                result[i].urgency = "High" /\ result[i].avg_concentration = 15000
    /\ \E c \in Cells : Len(RowsIn(c)) = 1 /\ RowsIn(c)[1].concentration = 500000

\* C9: the list is in non-increasing order of risk_score, and a qualifying
\* cell left out of a non-empty list scores no more than any returned alert.
C9_TopByRiskScore ==
    Alerted
        => /\ \A i \in 1..(Len(result) - 1) :
                 ~FracLess(result[i].risk_score, result[i + 1].risk_score)
           /\ \A c \in Cells :
                 (Len(RowsAbove(c)) >= 2 /\ AlertsFor(c) = {})
                     => \E avg \in NearestInts(SumConc(RowsAbove(c)),
                                               10 * Len(RowsAbove(c))) :
                          \/ 10 * avg <= args.threshold
                          \/ \A i \in 1..Len(result) :
                                ~FracLess(result[i].risk_score,
                                          ScoreOf(avg, args.threshold))

C9_Witness ==
    /\ Alerted
    /\ Len(result) = 10
    /\ FracLess(result[10].risk_score, result[1].risk_score)
    /\ \E c \in Cells :
          /\ Len(RowsAbove(c)) >= 2
          /\ AlertsFor(c) = {}
          /\ 10 * (SumConc(RowsAbove(c)) \div (10 * Len(RowsAbove(c)))) > args.threshold

\* C10, over the thresholds given: every alert has risk_score =
\* min(10, (avg_concentration / threshold) x 5), within 0 .. 10, and urgency
\* "Immediate" exactly when avg_concentration > 2 x threshold, else "High".
C10_Scenario(thresholds) ==
    Alerted
        => \A i \in 1..Len(result) :
             /\ result[i].risk_score
                  = ScoreOf(result[i].avg_concentration, args.threshold)
             /\ args.threshold \in thresholds
                  => /\ ~FracLess(result[i].risk_score, Zero)
                     /\ ~FracLess(Ten, result[i].risk_score)
             /\ result[i].urgency = "Immediate"
                  <=> 10 * result[i].avg_concentration > 2 * args.threshold
             /\ result[i].urgency \in {"Immediate", "High"}

C11_NeverRaises ==
    /\ (pc = "idle" /\ columns # AllColumns)
          => \A threshold \in Thresholds :
                 get_hotspot_alerts(gdf, columns, threshold, clock) # {}
    /\ Alerted
          => /\ ~(HotspotColumns \cup {"concentration"} \subseteq columns)
                    => result = <<>>
             /\ Hotspots(gdf, args.threshold) = <<>> => result = <<>>

\* a table without polymer_type whose cell has two samples above the
\* threshold: the aggregation fails and the list is empty
C11_Witness ==
    /\ Alerted
    /\ "polymer_type" \notin columns
    /\ \E c \in Cells : Len(RowsAbove(c)) >= 2
    /\ args.threshold = 0
    /\ result = <<>>

(***************************** C12, C13 ************************************)
RegionLabels ==
    { "South America Pacific", "Atlantic", "Indian Ocean", "North America Pacific",
      "Europe", "Asia Pacific", "South Pacific", "South Atlantic", "Polar Regions" }

InRange(r) ==
    /\ ~r.latitude.nan /\ Within(r.latitude, -9000, 9000)
    /\ ~r.longitude.nan /\ Within(r.longitude, -18000, 18000)

\* C12: a pair with -90 <= lat <= 90 and -180 <= lon <= 180, the band
\* boundaries included, gets one label of the nine named regions, never
\* "Unknown", and the label is "Polar Regions" exactly when |lat| > 60.
C12_RangeGetsNamedRegion ==
    Assigned
        => /\ Len(result) = Len(gdf)
           /\ \A i \in 1..Len(gdf) :
                 InRange(gdf[i])
                     => /\ result[i] \in RegionLabels
                        /\ result[i] = "Polar Regions" <=> Abs(gdf[i].latitude.v) > 6000

\* the pair (-10, -180) on two boundaries, and a polar pair after it
C12_Witness ==
    /\ Assigned
    /\ Len(gdf) = 2
    /\ gdf[1] = Coord(Num(-1000), Num(-18000))
    /\ result[1] = "South America Pacific"
    /\ InRange(gdf[2]) /\ result[2] = "Polar Regions"

\* C13: a pair whose latitude is NaN, and a pair whose longitude is NaN, is
\* labelled "Unknown" whatever the other coordinate is.
C13_NaNGetsUnknown ==
    Assigned
        => \A i \in 1..Len(gdf) :
               (gdf[i].latitude.nan \/ gdf[i].longitude.nan) => result[i] = "Unknown"

C13_Witness ==
    /\ Assigned
    /\ Len(gdf) = 2
    /\ gdf[1].latitude.nan /\ ~gdf[1].longitude.nan
    /\ ~gdf[2].latitude.nan /\ gdf[2].longitude.nan
    /\ result = <<"Unknown", "Unknown">>

(***************************** C14 .. C18 **********************************)
\* the row of the file that an output row comes from, and its columns
InputRow(r) == file.rows[r.index]
InputHas(col) == col \in Rename(file.columns)

\* C14: on every path the call returns a table, and in it every row has a
\* region that is not null, a latitude in [-90, 90] and a longitude in
\* [-180, 180].
C14_EveryPathValid ==
    Called
        => /\ pc = "returned"
           /\ "region" \in result.columns
           /\ \A i \in 1..Len(result.rows) :
                 /\ result.rows[i].region \in RegionLabels \cup {"Unknown"}
                 /\ ValidCoordinates(result.rows[i])

\* the concentrations of the file that are numbers and not negative
ValidConcentrations ==
    LET sound == SelectSeq(file.rows, LAMBDA r : r.concentration.k = "num"
                                                 /\ r.concentration.v >= 0)
    IN  [i \in 1..Len(sound) |-> sound[i].concentration.v]

\* the k-th smallest of the values
Kth(vals, k) ==
    CHOOSE x \in {vals[i] : i \in 1..Len(vals)} :
        /\ Cardinality({i \in 1..Len(vals) : vals[i] < x}) < k
        /\ Cardinality({i \in 1..Len(vals) : vals[i] <= x}) >= k

IsMedian(c, vals) ==
    IF vals = <<>> THEN c = 0
    ELSE 2 * c = Kth(vals, (Len(vals) + 1) \div 2) + Kth(vals, Len(vals) \div 2 + 1)

\* C15: in the returned table every concentration is non-negative, and a row
\* whose concentration in the file is empty or not a number holds the median
\* of the valid concentrations of the file, and zero when there is none.
C15_MissingGetsMedian ==
    (Loaded /\ InputHas("concentration"))
        => \A i \in 1..Len(result.rows) :
              LET r == result.rows[i]
              IN  /\ ~r.concentration.nan
                  /\ r.concentration.v >= 0
                  /\ InputRow(r).concentration.k # "num"
                        => IsMedian(r.concentration.v, ValidConcentrations)

\* C16: in the returned table polymer_type and source are texts in every
\* row, "Unknown" where the file has no such column or an empty cell.
C16_MissingGetsUnknown ==
    Loaded
        => \A i \in 1..Len(result.rows) : \A col \in {"polymer_type", "source"} :
              LET r == result.rows[i]
              IN  /\ r[col].k = "str"
                  /\ (~InputHas(col) \/ InputRow(r)[col].k = "nan")
                        => r[col] = StrCell("Unknown")

\* a row of the file whose cells are all sound: numbers in range and texts
Sound(r) ==
    /\ \A col \in NumericColumns : InputHas(col) => r[col].k = "num"
    /\ \A col \in {"polymer_type", "source"} : InputHas(col) => r[col].k = "str"
    /\ InputHas("latitude") => Within(r.latitude, -9000, 9000)
    /\ InputHas("longitude") => Within(r.longitude, -18000, 18000)
    /\ InputHas("concentration") => r.concentration.v >= 0

\* the output row holds the cell of the file in that column
SameValue(out, in, col) ==
    IF col \in NumericColumns THEN out[col] = Num(in[col].v) ELSE out[col] = in[col]

\* C17: when the file lacks exactly one required column, every row of the
\* file is in the returned table with its other columns unchanged.
C17_OneMissingColumnKeepsRows ==
    (Loaded /\ Cardinality(required_cols \ Rename(file.columns)) = 1)
        => \A i \in 1..Len(file.rows) :
              Sound(file.rows[i])
                  => \E j \in 1..Len(result.rows) :
                        /\ result.rows[j].index = i
                        /\ \A col \in required_cols :
                              InputHas(col) => SameValue(result.rows[j], file.rows[i], col)

\* C18: a file with a header row and no record, and a file with no content,
\* load as a table of zero rows, with no exception.
C18_EmptyInputGivesEmptyTable ==
    (Called /\ file.exists /\ file.rows = <<>> /\ file.content \in {"table", "empty"})
        => pc = "returned" /\ result.rows = <<>>

(***************************** C20 *****************************************)
\* C20: a call that fits an estimator fits the ensemble regressor exactly
\* when model_type is "advanced" and there are at least 20 data points, and
\* the linear model otherwise.
C20_AdvancedFromTwentyPoints ==
    (Computed /\ trained # "none")
        => (trained = "advanced"
               <=> (args.model_type = "advanced" /\ Len(UsedRows) >= 20))

(***************************** C21 *****************************************)
\* the tier of a percentage by the rule of the specification
TierOf(pct) ==
    IF pct.nan THEN RecStable
    ELSE IF pct.v > 200 THEN RecImmediate
    ELSE IF pct.v > 100 THEN RecHigh
    ELSE IF pct.v > 50 THEN RecModerate
    ELSE RecStable

\* C21: get_recommendations returns one of the four fixed lists, the tier of
\* the percentage by the strict thresholds 20, 10 and 5 (the values 20, 10 and
\* 5 themselves get the lower tier), and the recommendations of every record
\* that is not the fallback are the tier of its percentage_increase.
C21_TierByStrictThresholds ==
    /\ Recommended
          => /\ result \in {RecImmediate, RecHigh, RecModerate, RecStable}
             /\ result = TierOf(args.increase_percentage)
             /\ args.increase_percentage = Num(200) => result = RecHigh
             /\ args.increase_percentage = Num(100) => result = RecModerate
             /\ args.increase_percentage = Num(50) => result = RecStable
    /\ Computed => result.recommendations = TierOf(result.percentage_increase)

C21_Witness ==
    /\ Computed
    /\ result.percentage_increase = Num(50)
    /\ result.recommendations = RecStable

(***************************** C27, C29, C30 *******************************)
\* C27: in every record the call returns, the fallback included, risk_level
\* is the class of percentage_increase (High > 10, Moderate > 5, else Low),
\* recommendations is the tier of percentage_increase, and prediction_year is
\* current_year plus the horizon asked for.
C27_RecordConsistent ==
    Predicted
        => /\ result.risk_level =
                  (IF Gt(result.percentage_increase, 100) THEN "High"
                   ELSE IF Gt(result.percentage_increase, 50) THEN "Moderate"
                   ELSE "Low")
           /\ result.recommendations = TierOf(result.percentage_increase)
           /\ result.prediction_year = result.current_year + args.years_ahead

\* C29: in a computed record model_used = "advanced" with confidence 85 only
\* if the ensemble regressor was fitted, and model_used = "simple" with
\* confidence 75 whenever the linear model was fitted.
C29_RecordNamesFittedModel ==
    (Computed /\ ~result.percentage_increase.nan)
        => /\ (result.model_used = "advanced" /\ result.confidence = 85)
                  => trained = "advanced"
           /\ trained = "simple"
                  => (result.model_used = "simple" /\ result.confidence = 75)

\* the fields of a record other than risk_level and confidence
OtherFields(r) == [r EXCEPT !.risk_level = "", !.confidence = 0]

\* C30: validate_prediction applied twice gives the record it gives applied
\* once, it never raises confidence, it changes no field other than
\* risk_level and confidence, and it leaves a record with
\* 0 <= percentage_increase <= 50 as it is.
C30_ValidateIdempotentMonotone ==
    Validated
        => /\ result = validate_prediction(args.prediction)
           /\ validate_prediction(result) = result
           /\ result.confidence <= args.prediction.confidence
           /\ OtherFields(result) = OtherFields(args.prediction)
           /\ (/\ ~args.prediction.percentage_increase.nan
               /\ args.prediction.percentage_increase.v >= 0
               /\ args.prediction.percentage_increase.v <= 500)
                  => result = args.prediction

\* a second call on a record of 90 % whose confidence the first cut to 60
C30_Witness ==
    /\ Validated
    /\ args.calls = 2
    /\ args.prediction.percentage_increase = Num(900)
    /\ args.prediction.confidence = 85
    /\ result.confidence = 60

(***************************** C28 *****************************************)
\* C28: the engine accepts every table the loader returns that has a row
\* with a positive concentration, and returns a computed record for every
\* region name.
C28_LoadedTablePredicts ==
    (Predicted /\ \E i \in 1..Len(gdf) : gdf[i].concentration > 0)
        => result.model_used # "fallback"

(********************************* api.py **********************************)
\* the characters of the strings that are searched or searched for
Chars(str) ==
    CASE str = "download"    -> <<"d", "o", "w", "n", "l", "o", "a", "d">>
      [] str = "upload"      -> <<"u", "p", "l", "o", "a", "d">>
      [] str = "bpa"         -> <<"b", "p", "a">>
      [] str = "pet"         -> <<"p", "e", "t">>
      [] str = "BPA"         -> <<"B", "P", "A">>
      [] str = " PET "       -> <<" ", "P", "E", "T", " ">>
      [] str = "Downloadene" -> <<"D", "o", "w", "n", "l", "o", "a", "d", "e", "n", "e">>

\* str.lower, character by character
Lower(cs) ==
    LET lower(c) == CASE c = "A" -> "a" [] c = "B" -> "b" [] c = "D" -> "d"
                      [] c = "E" -> "e" [] c = "P" -> "p" [] c = "T" -> "t"
                      [] OTHER -> c
    IN  [i \in 1..Len(cs) |-> lower(cs[i])]

\* str.strip
RECURSIVE StrStrip(_)
StrStrip(cs) ==
    IF cs = <<>> THEN cs
    ELSE IF cs[1] = " " THEN StrStrip(Tail(cs))
    ELSE IF cs[Len(cs)] = " " THEN StrStrip(SubSeq(cs, 1, Len(cs) - 1))
    ELSE cs

\* needle in hay
Contains(needle, hay) ==
    \E i \in 0..(Len(hay) - Len(needle)) : SubSeq(hay, i + 1, i + Len(needle)) = needle

\* the columns upload_chemicals requires; the third is the wavenumber
\* column, whose name is written here in ASCII
ChemicalColumns == {"Chemical_Name", "Associated_Disease", "cm-1"}

\* load_chemical_library: the rows of data/chemical_library.csv with the
\* names stripped, [] when there is no file, and HTTP 500 for a file that
\* does not parse or has no Chemical_Name column
LibraryRaises(library) ==
    library.exists /\ (~library.parses \/ "Chemical_Name" \notin library.columns)

load_chemical_library(library) ==
    IF ~library.exists THEN <<>>
    ELSE [i \in 1..Len(library.names) |-> StrStrip(Chars(library.names[i]))]

Response(status, detail, handler, body) ==
    [status |-> status, detail |-> detail, handler |-> handler, body |-> body]

\* the routes in the order the decorators register them
Routes ==
    << [method |-> "GET",  path |-> <<>>,                                    endpoint |-> "root"],
       [method |-> "GET",  path |-> <<"health">>,                            endpoint |-> "health_check"],
       [method |-> "GET",  path |-> <<"api", "regions">>,                    endpoint |-> "get_regions"],
       [method |-> "GET",  path |-> <<"api", "stats">>,                      endpoint |-> "get_stats"],
       [method |-> "GET",  path |-> <<"api", "chemicals">>,                  endpoint |-> "get_chemicals"],
       [method |-> "GET",  path |-> <<"api", "chemicals", "{chemical_name}">>, endpoint |-> "get_chemical"],
       [method |-> "POST", path |-> <<"api", "chemicals", "upload">>,        endpoint |-> "upload_chemicals"],
       [method |-> "GET",  path |-> <<"api", "chemicals", "download">>,      endpoint |-> "download_chemicals"] >>

\* the path of a request matches the pattern of a route: the same segments,
\* a parameter standing for any one segment
PathMatches(pattern, path) ==
    /\ Len(pattern) = Len(path)
    /\ \A i \in 1..Len(path) : pattern[i] = "{chemical_name}" \/ pattern[i] = path[i]

\* the router: the first route whose path and method match handles the
\* request; a path that only routes of another method match is 405, a path
\* no route matches 404
Dispatch(request) ==
    LET full == {i \in 1..Len(Routes) : /\ PathMatches(Routes[i].path, request.path)
                                        /\ Routes[i].method = request.method}
        partial == {i \in 1..Len(Routes) : PathMatches(Routes[i].path, request.path)}
    IN  IF full # {} THEN Routes[CHOOSE i \in full : \A j \in full : i <= j].endpoint
        ELSE IF partial # {} THEN "405" ELSE "404"

\* get_chemical: the first chemical whose name contains the parameter,
\* both in lower case
get_chemical(library, chemical_name) ==
    IF LibraryRaises(library) THEN Response(500, "Error loading chemical data", "get_chemical", <<>>)
    ELSE LET chemicals == load_chemical_library(library)
             hits == {i \in 1..Len(chemicals) :
                         Contains(Lower(Chars(chemical_name)), Lower(chemicals[i]))}
         IN  IF hits = {} THEN Response(404, "Chemical not found", "get_chemical", <<>>)
             ELSE Response(200, "", "get_chemical",
                           <<library.names[CHOOSE i \in hits : \A j \in hits : i <= j]>>)

get_chemicals(library) ==
    IF LibraryRaises(library) THEN Response(500, "Error loading chemical data", "get_chemicals", <<>>)
    ELSE Response(200, "", "get_chemicals", IF library.exists THEN library.names ELSE <<>>)

download_chemicals(library) ==
    IF library.exists THEN Response(200, "", "download_chemicals", library.names)
    ELSE Response(404, "Chemical library not found", "download_chemicals", <<>>)

\* the uploaded table has every required column
ValidUpload(upload) == ChemicalColumns \subseteq upload.columns

\* upload_chemicals answers 500: the upload cannot be saved or parsed, the
\* library cannot be written, or the HTTPException of an invalid table,
\* raised inside the try, is caught by its except Exception
UploadFails(upload) ==
    \/ ~upload.save_ok
    \/ ~upload.parses
    \/ ValidUpload(upload) /\ ~upload.main_ok
    \/ ~ValidUpload(upload)

\* the same, with the HTTPException of the invalid table left to propagate
UploadFailsUncaught(upload) ==
    \/ ~upload.save_ok
    \/ ~upload.parses
    \/ ValidUpload(upload) /\ ~upload.main_ok

upload_chemicals(upload) ==
    IF UploadFails(upload) THEN Response(500, "Upload failed", "upload_chemicals", <<>>)
    ELSE Response(200, "", "upload_chemicals", upload.names)

\* data/chemical_library.csv after upload_chemicals
Uploaded(library, upload) ==
    IF upload.save_ok /\ upload.parses /\ ValidUpload(upload) /\ upload.main_ok
    THEN [exists |-> TRUE, parses |-> TRUE, columns |-> upload.columns, names |-> upload.names]
    ELSE library

\* the answer of the application to a request
Handle(library, request) ==
    LET endpoint == Dispatch(request)
    IN  CASE endpoint = "get_chemicals"      -> get_chemicals(library)
          [] endpoint = "get_chemical"       -> get_chemical(library, request.path[3])
          [] endpoint = "upload_chemicals"   -> upload_chemicals(request.upload)
          [] endpoint = "download_chemicals" -> download_chemicals(library)
          [] endpoint = "405"                -> Response(405, "Method Not Allowed", "router", <<>>)
          [] endpoint = "404"                -> Response(404, "Not Found", "router", <<>>)
          [] OTHER                           -> Response(200, "", endpoint, <<>>)

(******************************** API calls ********************************)
ChemicalNames == {"BPA", " PET ", "Downloadene"}

RECURSIVE NamesOfLen(_)
NamesOfLen(n) ==
    IF n = 0 THEN {<<>>}
    ELSE {Append(t, name) : t \in NamesOfLen(n - 1), name \in ChemicalNames}

\* data/chemical_library.csv: absent, unreadable, without its name column,
\* or a table of chemicals
Libraries ==
    {[exists |-> FALSE, parses |-> FALSE, columns |-> {}, names |-> <<>>]}
    \cup {[exists |-> TRUE, parses |-> FALSE, columns |-> {}, names |-> <<>>]}
    \cup {[exists |-> TRUE, parses |-> TRUE, columns |-> {"Associated_Disease"}, names |-> <<>>]}
    \cup {[exists |-> TRUE, parses |-> TRUE, columns |-> ChemicalColumns, names |-> names] :
          names \in UNION {NamesOfLen(n) : n \in 0..MaxChemicals}}

NoUpload == [save_ok |-> FALSE, parses |-> FALSE, columns |-> {}, names |-> <<>>, main_ok |-> FALSE]

\* uploaded files: saved or not, parsing or not, with the required columns
\* or without one of them, and with the library writable or not
Uploads ==
    { [save_ok |-> save_ok, parses |-> parses, columns |-> cols, names |-> names, main_ok |-> main_ok] :
      save_ok \in BOOLEAN, parses \in BOOLEAN, main_ok \in BOOLEAN,
      cols \in {ChemicalColumns} \cup {ChemicalColumns \ {c} : c \in ChemicalColumns},
      names \in {<<>>, <<"BPA">>} }

\* GET requests for the paths of the routes, with chemical names, and for
\* a path no route has; POST requests with an upload
Requests ==
    {[method |-> "GET", path |-> path, upload |-> NoUpload] :
        path \in { <<>>, <<"health">>, <<"api", "regions">>, <<"api", "stats">>,
                   <<"api", "chemicals">>, <<"api", "missing">> }
                 \cup {<<"api", "chemicals", name>> :
                          name \in {"download", "upload", "bpa", "pet"}}}
    \cup {[method |-> "POST", path |-> path, upload |-> upload] :
          path \in {<<"api", "chemicals", "upload">>, <<"api", "chemicals", "bpa">>},
          upload \in Uploads}

InitApi ==
    /\ file \in Libraries
    /\ pc = "idle"
    /\ args = [fn |-> "none"]
    /\ result = NoResult
    /\ clock = 0
    /\ gdf = <<>>
    /\ columns = {}
    /\ trained = "none"
    /\ alert_manager = NoManager
    /\ sent = NoneSent

\* one request served: routed, handled and answered
Request(request) ==
    /\ clock < MaxRequests
    /\ result' = Handle(file, request)
    /\ file' = IF Dispatch(request) = "upload_chemicals"
               THEN Uploaded(file, request.upload) ELSE file
    /\ args' = [fn |-> "request", request |-> request, library |-> file]
    /\ pc' = "responded"
    /\ clock' = clock + 1
    /\ UNCHANGED <<alert_manager, sent, gdf, columns, trained>>

NextApi == \E request \in Requests : Request(request)

SpecApi == InitApi /\ [][NextApi]_vars

(***************************** C22 .. C24 **********************************)
\* C22: check_threshold_alert returns None for no rows, a truthy value when
\* the mean is over 100.0 or, failing that, the maximum is over 200.0, and
\* False only when neither holds; the test data of the module is reported
\* as triggered.
C22_ThresholdReported ==
    (pc # "idle" /\ args.fn = "check_threshold_alert")
        => /\ pc = "returned"
           /\ Len(gdf) = 0 => result = "None"
           /\ (Len(gdf) > 0 /\ (SumConc(gdf) > 100000 * Len(gdf) \/ MaxConc(gdf) > 200000))
                 => result = "True"
           /\ (Len(gdf) > 0 /\ SumConc(gdf) <= 100000 * Len(gdf) /\ MaxConc(gdf) <= 200000)
                 => result = "False"
           /\ ConcOf(gdf) = ScenarioConc => result = "True"

\* C23: for each of the four alert types and any configuration of the
\* channels send_alert returns, and returns True exactly when a configured
\* channel reported success.
C23_SendAlertReturnsSuccess ==
    (pc # "idle" /\ args.fn = "send_alert" /\ args.alert_type \in AlertTypes)
        => /\ pc = "returned"
           /\ result \in {"True", "False"}
           /\ result = "True"
                 <=> \/ /\ alert_manager.email_configured
                        /\ _send_email_alert(alert_manager, args.smtp_up, <<>>).ok
                     \/ /\ alert_manager.twilio_configured
                        /\ _send_sms_alert(alert_manager, args.twilio_up, <<>>).ok

\* the phones of the recipients that have one, in the order of the list
PhonesOf(recipients) ==
    LET with == SelectSeq(recipients, LAMBDA r : r.phone # "")
    IN  [i \in 1..Len(with) |-> with[i].phone]

\* C24: with SMS configured and a Twilio client that accepts every message,
\* _send_sms_alert sends one SMS to every recipient that has a phone, in the
\* order of the list, and returns True.
C24_OneSmsPerPhone ==
    (/\ pc = "returned" /\ args.fn = "_send_sms_alert"
     /\ alert_manager.twilio_configured /\ args.twilio_up)
        => /\ sent.sms = PhonesOf(alert_manager.alert_recipients)
           /\ result = "True"

(***************************** C25 .. C26 **********************************)
\* C25: GET /api/chemicals/download is handled by download_chemicals, which
\* answers with the library file when it exists and with 404 "Chemical
\* library not found" when it does not; the request is never handled by the
\* route /api/chemicals/{chemical_name}.
C25_DownloadRouteHandles ==
    (/\ pc = "responded" /\ args.request.method = "GET"
     /\ args.request.path = <<"api", "chemicals", "download">>)
        => /\ result.handler = "download_chemicals"
           /\ args.library.exists => result.status = 200
           /\ ~args.library.exists
                 => result.status = 404 /\ result.detail = "Chemical library not found"

\* C26: an upload that is saved and parsed but lacks a required column is
\* answered with 400 "Invalid CSV format" and leaves the library as it was;
\* 500 is answered only when saving, parsing or writing fails.
C26_InvalidUploadIs400 ==
    (/\ pc = "responded" /\ args.request.method = "POST"
     /\ args.request.path = <<"api", "chemicals", "upload">>)
        => /\ (/\ args.request.upload.save_ok /\ args.request.upload.parses
               /\ ~ValidUpload(args.request.upload))
                 => /\ result.status = 400
                    /\ result.detail = "Invalid CSV format"
                    /\ file = args.library
           /\ result.status = 500 => UploadFailsUncaught(args.request.upload)

====
